---- MODULE Spec2Model ----
(***************************************************************************)
(* Model of the chat client in src/frontend/app/page.tsx (component Home). *)
(*                                                                         *)
(* State is the component's React state (sessions, currentSessionId,       *)
(* input, loading), the localStorage entry under STORAGE_SESSIONS_KEY, the *)
(* wall clock read by Date.now(), and the suspended sendMessage calls.     *)
(*                                                                         *)
(* One action is one browser task: an event handler or the continuation of *)
(* an await, followed by the render it causes and the effects of that      *)
(* render.  The handlers read sessions / currentSessionId / loading from   *)
(* the closure of the latest render, which is the current state because    *)
(* every task ends with its render.  A suspended sendMessage keeps the     *)
(* currentSessionId and botMsg.id of the render it was started from.       *)
(*                                                                         *)
(* Strings are sequences of characters; ids (decimal strings of Date.now())*)
(* are the numbers they print, and null is the number 0.  An optional      *)
(* field is <<>> when absent and <<v>> when it has the value v.            *)
(* clock is the last value read from Date.now(); the next read returns it  *)
(* or a later value, and a handler reads the clock once.                   *)
(* Effects run once per mount, as in a production build of React.          *)
(***************************************************************************)
EXTENDS Integers, Sequences, FiniteSets, TLC

\* ---- bounds ----
MaxClock == 2
MaxSessions == 2
MaxSends == 2

Null == 0

\* characters and the texts the user and the backend can produce
Inputs == { <<>>, <<" ">>, <<" ", "q", " ">> }
Answers == { <<>>, <<"a", "b">> }
SourceLists == { <<"u">> }
Statuses == { "500" }
\* message of the TypeError that a failed fetch or a failed body read rejects with
RejectionMessages == { <<"Failed to fetch">> }
Keys == { "Enter", "a" }

\* ---- state ----
VARIABLES sessions, currentSessionId, input, loading, storage, clock,
          phase, pendingLoad, exchanges, requests, snapshot

vars == <<sessions, currentSessionId, input, loading, storage, clock,
          phase, pendingLoad, exchanges, requests, snapshot>>

\* ---- sequences ----
\* Array.prototype.map is written [i \in 1..Len(s) |-> ...] where it is used
RECURSIVE removeSession(_, _)
removeSession(prevSessions, sessionId) ==
  IF prevSessions = <<>> THEN <<>>
  ELSE (IF Head(prevSessions).id # sessionId THEN <<Head(prevSessions)>> ELSE <<>>)
       \o removeSession(Tail(prevSessions), sessionId)

\* String.prototype.trim on a sequence of characters
RECURSIVE TrimLeft(_)
TrimLeft(s) ==
  IF s # <<>> /\ Head(s) = " " THEN TrimLeft(Tail(s)) ELSE s

RECURSIVE TrimRight(_)
TrimRight(s) ==
  IF s # <<>> /\ s[Len(s)] = " " THEN TrimRight(SubSeq(s, 1, Len(s) - 1)) ELSE s

Trim(s) == TrimRight(TrimLeft(s))

\* ---- localStorage and JSON ----
\* A JSON object is the sequence of its <<key, value>> members in insertion
\* order; JSON.stringify leaves out a member whose value is undefined.
NoEntry == [kind |-> "none", value |-> <<>>]
Corrupt == [kind |-> "corrupt", value |-> <<>>]

StringifyMessage_DropsSources(m) ==
  << <<"id", m.id>>, <<"role", m.role>>, <<"text", m.text>>, <<"time", m.time>> >>

StringifyMessage(m) ==
  << <<"id", m.id>>, <<"role", m.role>>, <<"text", m.text>>, <<"time", m.time>> >>
  \o (IF m.sources = <<>> THEN <<>> ELSE << <<"sources", m.sources[1]>> >>)

StringifySession(s) ==
  << <<"id", s.id>>, <<"createdAt", s.createdAt>>,
     <<"messages", [j \in 1..Len(s.messages) |-> StringifyMessage(s.messages[j])]>> >>

JSONstringify(ss) == [kind |-> "json", value |-> [i \in 1..Len(ss) |-> StringifySession(ss[i])]]

HasMember(obj, key) == \E i \in 1..Len(obj) : obj[i][1] = key
Member(obj, key) == obj[CHOOSE i \in 1..Len(obj) : obj[i][1] = key][2]

ParseMessage(obj) ==
  [id |-> Member(obj, "id"), role |-> Member(obj, "role"),
   text |-> Member(obj, "text"), time |-> Member(obj, "time"),
   sources |-> IF HasMember(obj, "sources") THEN <<Member(obj, "sources")>> ELSE <<>>]

ParseSession(obj) ==
  [id |-> Member(obj, "id"), createdAt |-> Member(obj, "createdAt"),
   messages |-> [j \in 1..Len(Member(obj, "messages")) |->
                  ParseMessage(Member(obj, "messages")[j])]]

JSONparse(raw) == [i \in 1..Len(raw.value) |-> ParseSession(raw.value[i])]

\* ---- pure parts of the handlers ----
\* the updater of addMessage, for the currentSessionId of the caller's render
addMessage(prevSessions, cur, msg) ==
  LET Upd(s) == IF s.id = cur THEN [s EXCEPT !.messages = Append(s.messages, msg)] ELSE s
  IN [i \in 1..Len(prevSessions) |-> Upd(prevSessions[i])]

\* updater that puts the session back when no session has the id
UpdateBot_Restores(prevSessions, cur, botId, text, srcs) ==
  IF \E i \in 1..Len(prevSessions) : prevSessions[i].id = cur
  THEN [i \in 1..Len(prevSessions) |->
          IF prevSessions[i].id = cur
          THEN [prevSessions[i] EXCEPT !.messages =
                  [j \in 1..Len(@) |->
                     IF @[j].id = botId
                     THEN [@[j] EXCEPT !.text = text,
                                       !.sources = IF srcs = <<>> THEN @ ELSE srcs]
                     ELSE @[j]]]
          ELSE prevSessions[i]]
  ELSE Append(prevSessions,
              [id |-> cur, createdAt |-> cur,
               messages |-> <<[id |-> botId, role |-> "bot", text |-> text,
                               time |-> cur, sources |-> srcs]>>])

\* the updater used by the typing animation, the final update and the error update
UpdateBot(prevSessions, cur, botId, text, srcs) ==
  LET UpdM(m) == IF m.id = botId
                 THEN [m EXCEPT !.text = text,
                                !.sources = IF srcs = <<>> THEN m.sources ELSE srcs]
                 ELSE m
      Upd(s) == IF s.id = cur THEN [s EXCEPT !.messages =
                             [j \in 1..Len(s.messages) |-> UpdM(s.messages[j])]] ELSE s
  IN [i \in 1..Len(prevSessions) |-> Upd(prevSessions[i])]

ErrorText(message) == <<"Error: ">> \o message

\* ---- startup ----
\* no entry, text that is not JSON, or the "[]" that an earlier visit left
InitialStorage == { NoEntry, Corrupt, JSONstringify(<<>>) }

Init ==
  /\ sessions = <<>>
  /\ currentSessionId = Null
  /\ input = <<>>
  /\ loading = FALSE
  /\ storage \in InitialStorage
  /\ clock = 1
  /\ phase = "boot"
  /\ pendingLoad = <<>>
  /\ exchanges = <<>>
  /\ requests = 0
  /\ snapshot = <<>>

\* load effect: the storage entry parses, or there is none
LoadEffect ==
  /\ phase = "boot"
  /\ storage.kind # "corrupt"
  /\ pendingLoad' = IF storage.kind = "json" THEN <<JSONparse(storage)>> ELSE <<>>
  /\ phase' = "loaded"
  /\ UNCHANGED <<sessions, currentSessionId, input, loading, storage, clock,
                 exchanges, requests, snapshot>>

\* load effect: JSON.parse throws inside the effect and nothing catches it;
\* whether the persist effect of the same commit still runs is left open
LoadEffectThrows ==
  /\ phase = "boot"
  /\ storage.kind = "corrupt"
  /\ phase' = "crashed"
  /\ storage' \in {storage, JSONstringify(sessions)}
  /\ UNCHANGED <<sessions, currentSessionId, input, loading, clock, pendingLoad,
                 exchanges, requests, snapshot>>

\* persist effect of the first commit: sessions is still the initial []
MountPersistEffect ==
  /\ phase = "loaded"
  /\ storage' = JSONstringify(sessions)
  /\ phase' = IF pendingLoad = <<>> THEN "running" ELSE "mounted"
  /\ snapshot' = IF pendingLoad = <<>> THEN <<>> ELSE snapshot
  /\ UNCHANGED <<sessions, currentSessionId, input, loading, clock, pendingLoad,
                 exchanges, requests>>

\* render of the updates queued by the load effect, then its persist effect
LoadRender ==
  /\ phase = "mounted"
  /\ sessions' = pendingLoad[1]
  /\ currentSessionId' = IF Len(pendingLoad[1]) > 0 THEN pendingLoad[1][1].id
                         ELSE currentSessionId
  /\ storage' = JSONstringify(sessions')
  /\ pendingLoad' = <<>>
  /\ phase' = "running"
  /\ snapshot' = <<>>
  /\ UNCHANGED <<input, loading, clock, exchanges, requests>>

\* ---- session handlers ----
\* Date.now() returns the last value read or a later one
Now == clock..MaxClock

startNewSession_AtEnd ==
  /\ phase = "running"
  /\ Len(sessions) < MaxSessions
  /\ \E now \in Now :
       LET newSession == [id |-> now, createdAt |-> now, messages |-> <<>>]
       IN /\ sessions' = Append(sessions, newSession)
          /\ currentSessionId' = newSession.id
          /\ clock' = now
  /\ storage' = JSONstringify(sessions')
  /\ UNCHANGED <<input, loading, phase, pendingLoad, exchanges, requests, snapshot>>

startNewSession ==
  /\ phase = "running"
  /\ Len(sessions) < MaxSessions
  /\ \E now \in Now :
       LET newSession == [id |-> now, createdAt |-> now, messages |-> <<>>]
       IN /\ sessions' = <<newSession>> \o sessions
          /\ currentSessionId' = newSession.id
          /\ clock' = now
  /\ storage' = JSONstringify(sessions')
  /\ UNCHANGED <<input, loading, phase, pendingLoad, exchanges, requests, snapshot>>

selectSession(sessionId) ==
  /\ phase = "running"
  /\ currentSessionId' = sessionId
  /\ UNCHANGED <<sessions, input, loading, storage, clock, phase, pendingLoad,
                 exchanges, requests, snapshot>>

\* sessions[0] is read from the render the handler belongs to, before the filter
deleteSession(sessionId) ==
  /\ phase = "running"
  /\ sessions' = removeSession(sessions, sessionId)
  /\ currentSessionId' =
       IF currentSessionId = sessionId
       THEN (IF Len(sessions) > 0 THEN sessions[1].id ELSE Null)
       ELSE currentSessionId
  /\ storage' = JSONstringify(sessions')
  /\ UNCHANGED <<input, loading, clock, phase, pendingLoad, exchanges, requests, snapshot>>

\* clearAllSessions whose removeItem is the last write to storage
clearAllSessions_NoPersist ==
  /\ phase = "running"
  /\ sessions' = <<>>
  /\ currentSessionId' = Null
  /\ storage' = NoEntry
  /\ UNCHANGED <<input, loading, clock, phase, pendingLoad, exchanges, requests, snapshot>>

\* removeItem takes the entry away; the render of setSessions([]) has a new
\* array as sessions, so the persist effect runs after it and writes "[]"
clearAllSessions ==
  /\ phase = "running"
  /\ sessions' = <<>>
  /\ currentSessionId' = Null
  /\ storage' = JSONstringify(sessions')
  /\ UNCHANGED <<input, loading, clock, phase, pendingLoad, exchanges, requests, snapshot>>

\* ---- conversation ----
\* sendMessage without setLoading(true)
sendMessage_NoLoading ==
  LET text == Trim(input)
  IN IF text = <<>> \/ currentSessionId = Null
     THEN UNCHANGED vars
     ELSE \E now \in Now :
          LET userMsg == [id |-> now, role |-> "user", text |-> text,
                          time |-> now, sources |-> <<>>]
              botMsg == [id |-> now + 1, role |-> "bot", text |-> <<>>,
                         time |-> now, sources |-> <<>>]
          IN /\ clock' = now
             /\ sessions' = addMessage(addMessage(sessions, currentSessionId, userMsg),
                                       currentSessionId, botMsg)
             /\ input' = <<>>
             /\ exchanges' = Append(exchanges,
                  [sid |-> currentSessionId, botId |-> botMsg.id, pc |-> "fetch",
                   answer |-> <<>>, sources |-> <<>>, i |-> 0, displayed |-> <<>>])
             /\ requests' = requests + 1
             /\ storage' = JSONstringify(sessions')
             /\ UNCHANGED <<currentSessionId, loading, phase, pendingLoad, snapshot>>

\* sendMessage up to its first await, with the render of the queued updates
sendMessage ==
  LET text == Trim(input)
  IN IF text = <<>> \/ currentSessionId = Null
     THEN UNCHANGED vars
     ELSE \E now \in Now :
          LET userMsg == [id |-> now, role |-> "user", text |-> text,
                          time |-> now, sources |-> <<>>]
              botMsg == [id |-> now + 1, role |-> "bot", text |-> <<>>,
                         time |-> now, sources |-> <<>>]
          IN /\ clock' = now
             /\ sessions' = addMessage(addMessage(sessions, currentSessionId, userMsg),
                                       currentSessionId, botMsg)
             /\ input' = <<>>
             /\ loading' = TRUE
             /\ exchanges' = Append(exchanges,
                  [sid |-> currentSessionId, botId |-> botMsg.id, pc |-> "fetch",
                   answer |-> <<>>, sources |-> <<>>, i |-> 0, displayed |-> <<>>])
             /\ requests' = requests + 1
             /\ storage' = JSONstringify(sessions')
             /\ UNCHANGED <<currentSessionId, phase, pendingLoad, snapshot>>

handleKeyDown(key, shiftKey) ==
  /\ phase = "running"
  /\ requests < MaxSends
  /\ IF key = "Enter" /\ ~shiftKey /\ ~loading THEN sendMessage ELSE UNCHANGED vars

sendButtonOnClick ==
  /\ phase = "running"
  /\ requests < MaxSends
  /\ IF ~loading THEN sendMessage ELSE UNCHANGED vars

\* onChange of the textarea, which is disabled while loading
inputOnChange(value) ==
  /\ phase = "running"
  /\ ~loading
  /\ input' = value
  /\ UNCHANGED <<sessions, currentSessionId, loading, storage, clock, phase,
                 pendingLoad, exchanges, requests, snapshot>>

RemoveAt(s, k) == SubSeq(s, 1, k - 1) \o SubSeq(s, k + 1, Len(s))

\* catch block with no finally after it
CatchFinally_NoFinally(k, message) ==
  /\ sessions' = UpdateBot(sessions, exchanges[k].sid, exchanges[k].botId,
                           ErrorText(message), << <<>> >>)
  /\ exchanges' = RemoveAt(exchanges, k)
  /\ storage' = JSONstringify(sessions')
  /\ UNCHANGED <<currentSessionId, input, loading, clock, phase, pendingLoad,
                 requests, snapshot>>

\* catch block that leaves the message's sources as they were
CatchFinally_KeepsSources(k, message) ==
  /\ sessions' = UpdateBot(sessions, exchanges[k].sid, exchanges[k].botId,
                           ErrorText(message), <<>>)
  /\ loading' = FALSE
  /\ exchanges' = RemoveAt(exchanges, k)
  /\ storage' = JSONstringify(sessions')
  /\ UNCHANGED <<currentSessionId, input, clock, phase, pendingLoad, requests, snapshot>>

\* catch block followed by finally
CatchFinally(k, message) ==
  /\ sessions' = UpdateBot(sessions, exchanges[k].sid, exchanges[k].botId,
                           ErrorText(message), << <<>> >>)
  /\ loading' = FALSE
  /\ exchanges' = RemoveAt(exchanges, k)
  /\ storage' = JSONstringify(sessions')
  /\ UNCHANGED <<currentSessionId, input, clock, phase, pendingLoad, requests, snapshot>>

\* final update that looks the session up by the active id of the current render
FinalFinally_ActiveSession(k, answer, srcs) ==
  /\ sessions' = UpdateBot(sessions, currentSessionId, exchanges[k].botId,
                           answer, <<srcs>>)
  /\ loading' = FALSE
  /\ exchanges' = RemoveAt(exchanges, k)
  /\ storage' = JSONstringify(sessions')
  /\ UNCHANGED <<currentSessionId, input, clock, phase, pendingLoad, requests, snapshot>>

\* "Final message with sources" followed by finally
FinalFinally(k, answer, srcs) ==
  /\ sessions' = UpdateBot(sessions, exchanges[k].sid, exchanges[k].botId,
                           answer, <<srcs>>)
  /\ loading' = FALSE
  /\ exchanges' = RemoveAt(exchanges, k)
  /\ storage' = JSONstringify(sessions')
  /\ UNCHANGED <<currentSessionId, input, clock, phase, pendingLoad, requests, snapshot>>

\* typing loop body that writes answer[i] instead of displayed
RevealStep_LastCharOnly(k, answer, srcs, i, displayed) ==
  /\ sessions' = UpdateBot(sessions, exchanges[k].sid, exchanges[k].botId,
                           <<answer[i + 1]>>, <<>>)
  /\ exchanges' = [exchanges EXCEPT ![k] =
       [@ EXCEPT !.pc = "reveal", !.answer = answer, !.sources = srcs,
                 !.i = i, !.displayed = displayed \o <<answer[i + 1]>>]]
  /\ storage' = JSONstringify(sessions')
  /\ UNCHANGED <<currentSessionId, input, loading, clock, phase, pendingLoad,
                 requests, snapshot>>

\* one pass of the typing loop body, up to its await
RevealStep(k, answer, srcs, i, displayed) ==
  /\ sessions' = UpdateBot(sessions, exchanges[k].sid, exchanges[k].botId,
                           displayed \o <<answer[i + 1]>>, <<>>)
  /\ exchanges' = [exchanges EXCEPT ![k] =
       [@ EXCEPT !.pc = "reveal", !.answer = answer, !.sources = srcs,
                 !.i = i, !.displayed = displayed \o <<answer[i + 1]>>]]
  /\ storage' = JSONstringify(sessions')
  /\ UNCHANGED <<currentSessionId, input, loading, clock, phase, pendingLoad,
                 requests, snapshot>>

\* fetch settles with a response
FetchResolve(k, ok, status) ==
  /\ exchanges[k].pc = "fetch"
  /\ IF ok
     THEN /\ exchanges' = [exchanges EXCEPT ![k].pc = "json"]
          /\ UNCHANGED <<sessions, currentSessionId, input, loading, storage, clock,
                         phase, pendingLoad, requests, snapshot>>
     ELSE CatchFinally(k, <<"Server error: ", status>>)

\* fetch rejects
FetchReject(k, message) ==
  /\ exchanges[k].pc = "fetch"
  /\ CatchFinally(k, message)

\* res.json() resolves; answer and srcs are data.answer || '' and data.sources || []
JsonResolve(k, answer, srcs) ==
  /\ exchanges[k].pc = "json"
  /\ IF 0 < Len(answer)
     THEN RevealStep(k, answer, srcs, 0, <<>>)
     ELSE FinalFinally(k, answer, srcs)

\* res.json() rejects
JsonReject(k, message) ==
  /\ exchanges[k].pc = "json"
  /\ CatchFinally(k, message)

\* the 15 ms timer of the typing loop fires: i++, then the loop test
TimerFire(k) ==
  /\ exchanges[k].pc = "reveal"
  /\ LET e == exchanges[k]
     IN IF e.i + 1 < Len(e.answer)
        THEN RevealStep(k, e.answer, e.sources, e.i + 1, e.displayed)
        ELSE FinalFinally(k, e.answer, e.sources)

\* a page reload: component state starts over, storage stays
Reload ==
  /\ phase \in {"running", "crashed"}
  /\ snapshot' = sessions
  /\ sessions' = <<>>
  /\ currentSessionId' = Null
  /\ input' = <<>>
  /\ loading' = FALSE
  /\ exchanges' = <<>>
  /\ pendingLoad' = <<>>
  /\ phase' = "boot"
  /\ UNCHANGED <<storage, clock, requests>>

ExchangeStep ==
  \/ \E k \in 1..Len(exchanges) : \E ok \in BOOLEAN, status \in Statuses :
       FetchResolve(k, ok, status)
  \/ \E k \in 1..Len(exchanges) : \E message \in RejectionMessages :
       FetchReject(k, message)
  \/ \E k \in 1..Len(exchanges) : \E answer \in Answers, srcs \in SourceLists :
       JsonResolve(k, answer, srcs)
  \/ \E k \in 1..Len(exchanges) : \E message \in RejectionMessages :
       JsonReject(k, message)
  \/ \E k \in 1..Len(exchanges) : TimerFire(k)

Next ==
  \/ LoadEffect
  \/ LoadEffectThrows
  \/ MountPersistEffect
  \/ LoadRender
  \/ startNewSession
  \/ \E i \in 1..Len(sessions) : selectSession(sessions[i].id)
  \/ \E i \in 1..Len(sessions) : deleteSession(sessions[i].id)
  \/ clearAllSessions
  \/ \E value \in Inputs : inputOnChange(value)
  \/ \E key \in Keys, shiftKey \in BOOLEAN : handleKeyDown(key, shiftKey)
  \/ sendButtonOnClick
  \/ ExchangeStep

\* one visit of the page
Spec == Init /\ [][Next]_vars

\* visits separated by page reloads
ReloadSpec == Init /\ [][Next \/ Reload]_vars

\* request and timers eventually complete
FairSpec == Spec /\ WF_vars(ExchangeStep)

\* ---- properties ----
SessionIds(ss) == { ss[i].id : i \in 1..Len(ss) }

\* C1: the active session id is null or the id of a session in the collection.
C1_ActiveIdInCollection ==
  currentSessionId = Null \/ currentSessionId \in SessionIds(sessions)

\* C2: deleting the active session leaves the active id equal to the id of the
\* first session of the remaining list, or null when no session remains.
C2_DeleteActiveSelectsFirstRemaining ==
  [][\A i \in 1..Len(sessions) :
       (currentSessionId = sessions[i].id /\ deleteSession(sessions[i].id))
       => currentSessionId' = IF sessions' = <<>> THEN Null ELSE sessions'[1].id]_vars

\* C3: after clearAll has settled, the collection is empty, there is no active
\* session and there is no entry under the storage key.
C3_ClearAllRemovesEntry ==
  [][clearAllSessions
     => (sessions' = <<>> /\ currentSessionId' = Null /\ storage' = NoEntry)]_vars

\* C4: with unparseable content under the storage key, startup continues with
\* an empty collection and no active session, and the load step raises no error.
C4_CorruptStorageLoadsEmpty ==
  [][(phase = "boot" /\ storage.kind = "corrupt" /\ phase' # "boot")
     => (phase' = "loaded" /\ pendingLoad' = <<>> /\ sessions' = <<>>
         /\ currentSessionId' = Null)]_vars

\* C5: a non-empty collection that was persisted comes back from the startup
\* of a fresh page unchanged (ids, order, messages), with its first session
\* active and storage holding that collection again.
C5_RoundTrip ==
  [][(phase = "mounted" /\ phase' = "running" /\ snapshot # <<>>)
     => (/\ sessions' = snapshot
         /\ currentSessionId' = snapshot[1].id
         /\ storage' = JSONstringify(snapshot))]_vars

HasSources(ss, present) ==
  \E i \in 1..Len(ss) : \E j \in 1..Len(ss[i].messages) :
    (ss[i].messages[j].sources # <<>>) = present

\* a reveal that a page reload interrupted has come back from storage as it was
C5_Witness ==
  /\ phase = "running"
  /\ exchanges = <<>>
  /\ sessions # <<>>
  /\ currentSessionId = sessions[1].id
  /\ storage = JSONstringify(sessions)
  /\ HasSources(sessions, TRUE)
  /\ \E i \in 1..Len(sessions) : \E j \in 1..Len(sessions[i].messages) :
       /\ sessions[i].messages[j].role = "bot"
       /\ sessions[i].messages[j].text = <<"a">>
       /\ sessions[i].messages[j].sources = <<>>

\* C6: when sendMessage issues the request, the user message it created is the
\* second-to-last message of a session of the collection.
C6_UserMessageBeforeRequest ==
  [][requests' = requests + 1
     => \E i \in 1..Len(sessions') :
          LET ms == sessions'[i].messages
          IN /\ Len(ms) >= 2
             /\ ms[Len(ms) - 1].role = "user"
             /\ ms[Len(ms) - 1].text = Trim(input)
             /\ ms[Len(ms) - 1].id = clock']_vars

\* C7: while an exchange is in flight, its placeholder bot message is in the
\* collection.
C7_PlaceholderPresent ==
  \A k \in 1..Len(exchanges) :
    \E i \in 1..Len(sessions) :
      /\ sessions[i].id = exchanges[k].sid
      /\ \E j \in 1..Len(sessions[i].messages) :
           /\ sessions[i].messages[j].id = exchanges[k].botId
           /\ sessions[i].messages[j].role = "bot"

RECURSIVE MessageCount(_)
MessageCount(ss) ==
  IF ss = <<>> THEN 0 ELSE Len(Head(ss).messages) + MessageCount(Tail(ss))

\* C8: at most one exchange is in flight, and no step taken while loading is
\* true (a submit attempt included) adds a message or issues a request.
C8_OneExchangeInFlight ==
  /\ [](Len(exchanges) <= 1)
  /\ [][loading => (requests' = requests
                    /\ MessageCount(sessions') <= MessageCount(sessions))]_vars

C8_Witness ==
  /\ loading
  /\ Len(exchanges) = 1
  /\ requests = 1
  /\ currentSessionId \in SessionIds(sessions)

\* C9: once loading is set it is eventually cleared again, whichever way the
\* request ends, and it is cleared exactly when the exchange has made its last
\* update.
C9_LoadingEventuallyCleared ==
  /\ loading ~> ~loading
  /\ [](loading <=> exchanges # <<>>)

C9_Witness ==
  /\ ~loading
  /\ exchanges = <<>>
  /\ requests > 0
  /\ phase = "running"
  /\ \E i \in 1..Len(sessions) : \E j \in 1..Len(sessions[i].messages) :
       /\ sessions[i].messages[j].role = "bot"
       /\ sessions[i].messages[j].text = ErrorText(<<"Server error: ", "500">>)

\* the sessions that hold the placeholder of exchange e: it is their last message
PlaceholderAt(ss, e) ==
  { i \in 1..Len(ss) :
      /\ ss[i].id = e.sid
      /\ ss[i].messages # <<>>
      /\ ss[i].messages[Len(ss[i].messages)].id = e.botId
      /\ ss[i].messages[Len(ss[i].messages)].role = "bot" }

Last(s) == s[Len(s)]

\* C10: on the success path the placeholder's text is empty at first, is at
\* every reveal step the prefix of the answer one character longer than before,
\* and equals the answer after the final update, which alone attaches sources.
C10_ProgressiveReveal ==
  /\ [](\A k \in 1..Len(exchanges) : \A i \in PlaceholderAt(sessions, exchanges[k]) :
          /\ Last(sessions[i].messages).text = exchanges[k].displayed
          /\ exchanges[k].displayed
               = SubSeq(exchanges[k].answer, 1, Len(exchanges[k].displayed))
          /\ exchanges[k].pc # "reveal" => exchanges[k].displayed = <<>>
          /\ Last(sessions[i].messages).sources = <<>>)
  /\ [][\A k \in 1..Len(exchanges) :
          /\ (Len(exchanges') = Len(exchanges) /\ exchanges'[k] # exchanges[k]
              /\ exchanges'[k].pc = "reveal")
             => /\ Len(exchanges'[k].displayed) = Len(exchanges[k].displayed) + 1
                /\ \A i \in PlaceholderAt(sessions, exchanges[k]) :
                     Last(sessions'[i].messages).text = exchanges'[k].displayed
          /\ TimerFire(k) /\ exchanges' = <<>>
             => /\ exchanges[k].displayed = exchanges[k].answer
                /\ \A i \in PlaceholderAt(sessions, exchanges[k]) :
                     /\ Last(sessions'[i].messages).text = exchanges[k].answer
                     /\ Last(sessions'[i].messages).sources = <<exchanges[k].sources>>
          /\ \A srcs \in SourceLists :
               JsonResolve(k, <<>>, srcs)
               => \A i \in PlaceholderAt(sessions, exchanges[k]) :
                    /\ Last(sessions'[i].messages).text = <<>>
                    /\ Last(sessions'[i].messages).sources = <<srcs>>]_vars

C10_Witness ==
  /\ Len(exchanges) = 1
  /\ exchanges[1].pc = "reveal"
  /\ exchanges[1].answer = <<"a", "b">>
  /\ exchanges[1].displayed = <<"a", "b">>
  /\ \E i \in PlaceholderAt(sessions, exchanges[1]) :
       /\ Last(sessions[i].messages).text = <<"a", "b">>
       /\ Last(sessions[i].messages).sources = <<>>

\* what the end of a failed exchange k leaves behind
FailedWith(k, text) ==
  /\ \A i \in PlaceholderAt(sessions, exchanges[k]) :
       /\ Last(sessions'[i].messages).text = text
       /\ Last(sessions'[i].messages).sources = << <<>> >>
  /\ loading' = FALSE
  /\ exchanges' = RemoveAt(exchanges, k)
  /\ requests' = requests

\* C11: a non-success status or a rejected request ends the exchange with the
\* placeholder's text the error indicator followed by the reason, its sources
\* the empty list, loading false and no further request.
C11_FailureEndsWithError ==
  [][\A k \in 1..Len(exchanges) :
       /\ \A status \in Statuses :
            FetchResolve(k, FALSE, status)
            => FailedWith(k, <<"Error: ", "Server error: ", status>>)
       /\ \A message \in RejectionMessages :
            (FetchReject(k, message) \/ JsonReject(k, message))
            => FailedWith(k, <<"Error: ">> \o message)]_vars

C11_Witness ==
  /\ ~loading
  /\ exchanges = <<>>
  /\ requests = 1
  /\ \E i \in 1..Len(sessions) :
       /\ sessions[i].messages # <<>>
       /\ Last(sessions[i].messages).role = "bot"
       /\ Last(sessions[i].messages).text = <<"Error: ", "Failed to fetch">>
       /\ Last(sessions[i].messages).sources = << <<>> >>

\* C12: an update made by an exchange after its two appends changes nothing but
\* the text and sources of that exchange's placeholder.
C12_OnlyPlaceholderChanges ==
  [][(exchanges # <<>> /\ ExchangeStep)
     => /\ Len(sessions') = Len(sessions)
        /\ \A i \in 1..Len(sessions) :
             /\ sessions'[i].id = sessions[i].id
             /\ sessions'[i].createdAt = sessions[i].createdAt
             /\ Len(sessions'[i].messages) = Len(sessions[i].messages)
             /\ \A j \in 1..Len(sessions[i].messages) :
                  \/ sessions'[i].messages[j] = sessions[i].messages[j]
                  \/ /\ i \in PlaceholderAt(sessions, exchanges[1])
                     /\ j = Len(sessions[i].messages)
                     /\ sessions'[i].messages[j].id = sessions[i].messages[j].id
                     /\ sessions'[i].messages[j].role = sessions[i].messages[j].role
                     /\ sessions'[i].messages[j].time = sessions[i].messages[j].time]_vars

\* the session the page shows as active: the first one with the active id
ActiveIndex(ss, cur) ==
  CHOOSE i \in 1..Len(ss) : ss[i].id = cur /\ \A j \in 1..(i - 1) : ss[j].id # cur

\* C13: the two addMessage calls of a send lengthen the active session's list
\* by one message each, the new messages come last and in call order, and the
\* message lists of all other sessions are unchanged.
C13_AddMessageAppendsToActiveOnly ==
  [][(requests' = requests + 1 /\ currentSessionId \in SessionIds(sessions))
     => LET a == ActiveIndex(sessions, currentSessionId)
            old == sessions[a].messages
            new == sessions'[a].messages
        IN /\ Len(sessions') = Len(sessions)
           /\ Len(new) = Len(old) + 2
           /\ SubSeq(new, 1, Len(old)) = old
           /\ new[Len(old) + 1].role = "user"
           /\ new[Len(old) + 2].role = "bot"
           /\ \A i \in 1..Len(sessions) :
                i # a => sessions'[i].messages = sessions[i].messages]_vars

\* C14: the sessions of the collection have pairwise distinct ids.
C14_SessionIdsDistinct ==
  \A i, j \in 1..Len(sessions) : i # j => sessions[i].id # sessions[j].id

\* C15: whenever a session is added, the collection becomes the new session,
\* which has no messages, followed by all previous sessions in their previous
\* order, and the active id becomes the id of the new session.
C15_NewSessionFirstAndActive ==
  [][(phase = "running" /\ Len(sessions') > Len(sessions))
     => /\ sessions'[1].messages = <<>>
        /\ Tail(sessions') = sessions
        /\ currentSessionId' = sessions'[1].id]_vars

C15_Witness ==
  /\ Len(sessions) = 2
  /\ sessions[1].messages = <<>>
  /\ sessions[2].messages # <<>>
  /\ sessions[1].id > sessions[2].id
  /\ currentSessionId = sessions[1].id
  /\ loading

\* C16: in every settled state after startup, the storage entry is the
\* serialization of the whole current session collection.
C16_StorageMirrorsCollection ==
  phase = "running" => storage = JSONstringify(sessions)

\* a settled state in the middle of a typing animation
C16_Witness ==
  /\ phase = "running"
  /\ storage = JSONstringify(sessions)
  /\ \E k \in 1..Len(exchanges) :
       /\ exchanges[k].pc = "reveal"
       /\ exchanges[k].displayed # <<>>
       /\ exchanges[k].displayed # exchanges[k].answer
       /\ \E i \in PlaceholderAt(sessions, exchanges[k]) :
            Last(sessions[i].messages).text = exchanges[k].displayed

\* C17: once the active id differs from the id of the session in which the
\* question was asked, every further update of the exchange is still made to
\* the placeholder in the asking session, and the sessions with the active id
\* are left as they were.
C17_UpdatesStayInAskingSession ==
  [][(exchanges # <<>> /\ ExchangeStep /\ currentSessionId # exchanges[1].sid)
     => /\ \A i \in PlaceholderAt(sessions, exchanges[1]) :
             IF exchanges' = <<>>
             THEN Last(sessions'[i].messages).sources # <<>>
             ELSE Last(sessions'[i].messages).text = exchanges'[1].displayed
        /\ \A i \in 1..Len(sessions) :
             sessions[i].id = currentSessionId => sessions'[i] = sessions[i]]_vars

\* a new session was started during the typing animation of another session
C17_Witness ==
  /\ exchanges # <<>>
  /\ exchanges[1].pc = "reveal"
  /\ exchanges[1].displayed # <<>>
  /\ currentSessionId # exchanges[1].sid
  /\ \E i \in 1..Len(sessions) :
       sessions[i].id = currentSessionId /\ sessions[i].messages = <<>>
  /\ \E i \in PlaceholderAt(sessions, exchanges[1]) :
       Last(sessions[i].messages).text = exchanges[1].displayed

\* C18: once the session of an exchange in flight is gone, no step of the
\* exchange changes the collection, storage keeps mirroring the collection
\* without that session, and the exchange still ends with loading false.
C18_RemovedSessionStaysRemoved ==
  /\ [][(exchanges # <<>> /\ ExchangeStep /\ PlaceholderAt(sessions, exchanges[1]) = {})
        => /\ sessions' = sessions
           /\ storage' = JSONstringify(sessions)]_vars
  /\ (exchanges # <<>> /\ exchanges[1].sid \notin SessionIds(sessions)) ~> ~loading

\* the session was removed during the typing animation
C18_Witness ==
  /\ loading
  /\ exchanges # <<>>
  /\ exchanges[1].pc = "reveal"
  /\ exchanges[1].displayed # <<>>
  /\ exchanges[1].sid \notin SessionIds(sessions)
  /\ storage = JSONstringify(sessions)
====
